---- MODULE Spec2Model ----
(***************************************************************************)
(* Email verification engine of app.py: verify_email (normalise, cache     *)
(* lookup, syntax check, MX lookup, SMTP RCPT probe, cache write-back) run *)
(* by verify_bulk / verify_csv through ThreadPoolExecutor.map.             *)
(*                                                                         *)
(* An address is a sequence of one-character strings, so that strip(),     *)
(* lower() and the regular expression are computed character by character. *)
(* A status is the string the code produces.                               *)
(*                                                                         *)
(* Each call is a task with a position pc: queued, lookup (line 27),       *)
(* resolve (line 40), connect, helo, mail, rcpt, quit (lines 50-54), store *)
(* (the cache write), readback (the return that reads cache[email][0]),    *)
(* done, or raised when an exception leaves the call.  The fields trace,   *)
(* wire, answers, dns, cached and hit of a task and the variable history   *)
(* record what the call did and are read by the properties only.           *)
(*                                                                         *)
(* Assumptions: the elements of a submitted list are strings; requests are *)
(* served one at a time (gunicorn's single synchronous worker); the clock  *)
(* never goes back and moves, while a request runs, only during a network  *)
(* call and by no more than its timeout.                                   *)
(*                                                                         *)
(* The specifications share the actions and differ in their surroundings:  *)
(* Spec (one concurrent batch), SpecTwo (one concurrent batch over two     *)
(* well-formed addresses), SpecSeq (successive one-address requests over a *)
(* moving clock), SpecOne (one call for any string up to MaxLen), SpecPool *)
(* (one list longer than the pool), SpecMx (any MX answer up to            *)
(* MaxRecords), SpecSpell (one address in several spellings) and SpecLive  *)
(* (one concurrent batch under fair scheduling).                           *)
(***************************************************************************)
EXTENDS Integers, Sequences, FiniteSets, TLC

VARIABLES universe, limits, clock, cache, phase, emails, tasks, results,
          nreq, history

vars == <<universe, limits, clock, cache, phase, emails, tasks, results,
          nreq, history>>

\* the surroundings, fixed through a behaviour: the addresses the clients
\* submit, how long and how many their requests are, the reply codes the mail
\* servers give to RCPT and the commands at which a session can break
client == <<universe, limits>>

(* ------------------------------ bounds --------------------------------- *)
\* longest address drawn in the single-address specification
MaxLen == 5
\* longest list of addresses in the one request of the batch specification
MaxBatch == 2
\* number of one-address requests in the sequential specification
MaxRequests == 3
\* clock readings kept below and above the expiry boundary
MaxEarly == 1
MaxLate == 1
MaxRecords == 3
MaxSpelled == 2

(* ------------------------- program constants --------------------------- *)
CACHE_TTL == 60 * 60
max_workers == 10

(* ------------------------------ strings -------------------------------- *)
Whitespace == {" "}
Alphabet == {"a", "A", "@", ".", " "}

\* str.lower() on one character
ToLower(c) == IF c = "A" THEN "a" ELSE c

lower(s) == [i \in 1..Len(s) |-> ToLower(s[i])]

RECURSIVE lstrip(_)
lstrip(s) == IF s # <<>> /\ Head(s) \in Whitespace THEN lstrip(Tail(s)) ELSE s

RECURSIVE rstrip(_)
rstrip(s) ==
  IF s # <<>> /\ s[Len(s)] \in Whitespace
  THEN rstrip(SubSeq(s, 1, Len(s) - 1)) ELSE s

strip(s) == rstrip(lstrip(s))

\* faulty variant: email.strip(), the case is kept
NormalizeKeepCase(s) == strip(s)

\* email.strip().lower()
Normalize(s) == lower(strip(s))

\* [^@\s]
Plain(c) == c # "@" /\ c \notin Whitespace

\* faulty variant: the pattern without the dot of the domain: ^[^@\s]+@[^@\s]+$
EMAIL_REGEX_NoDot(s) ==
  \E i \in 2..(Len(s) - 1) :
    /\ s[i] = "@"
    /\ \A k \in (1..Len(s)) \ {i} : Plain(s[k])

\* EMAIL_REGEX.match(s) for ^[^@\s]+@[^@\s]+\.[^@\s]+$ : an '@' at i with a
\* non-empty run before it, a '.' at j with non-empty runs on both sides, and
\* every character other than the '@' outside [@\s].
EMAIL_REGEX(s) ==
  \E i \in 2..Len(s) :
    /\ s[i] = "@"
    /\ \A k \in (1..Len(s)) \ {i} : Plain(s[k])
    /\ \E j \in (i + 2)..(Len(s) - 1) : s[j] = "."

(* ------------------------------ statuses ------------------------------- *)
InvalidSyntax == "Invalid Syntax"
NoMXRecords == "No MX Records"
Valid == "Valid"
MailboxNotFound == "Mailbox Not Found"
Unknown(code) == "Unknown (" \o ToString(code) \o ")"
SMTPError(text) == "SMTP Error: " \o text

\* the if / elif / else on the RCPT reply code
Classify(code) ==
  IF code = 250 \/ code = 251 THEN Valid
  ELSE IF code = 550 THEN MailboxNotFound
  ELSE Unknown(code)

(* ---------------------------- environment ------------------------------ *)
\* values time.time() takes: around 0 and around the expiry boundary
Times == (0..MaxEarly) \cup ((CACHE_TTL - 1)..(CACHE_TTL + MaxLate))

\* reply codes a server gives to RCPT, and the commands of a session
RcptCodes == {250, 251, 550, 451}
Commands == {"connect", "helo", "mail", "rcpt", "quit"}

\* the exception a command of the session raises: connect times out, a
\* later command finds the connection closed by the server
Raises(cmd) ==
  IF cmd = "connect"
  THEN {[type |-> "TimeoutError", text |-> "timed out"]}
  ELSE {[type |-> "SMTPServerDisconnected", text |-> "Connection unexpectedly closed"]}

\* lifetime=8.0 of the MX query and timeout=10 of the SMTP socket
Timeout(pc) == IF pc = "resolve" THEN 8 ELSE 10
Blocking == {"resolve", "connect", "helo", "mail", "rcpt", "quit"}

\* classes caught by "except Exception"
ExceptionClasses == {"SMTPServerDisconnected", "TimeoutError"}

\* faulty variant: except smtplib.SMTPException
CatchesSmtpOnly(type) == type = "SMTPServerDisconnected"

Catches(type) == type \in ExceptionClasses

\* MX answers of the resolver: records (preference, exchange), in the order
\* the resolver returns them; the empty answer raises NoAnswer
MX(p, h) == [preference |-> p, exchange |-> h]
DnsAnswers == { <<>>, <<MX(20, "mx2."), MX(10, "mx1.")>> }
DnsExceptions == {"NXDOMAIN", "LifetimeTimeout"}

\* order of the exchange texts under Python's string comparison
HostOrder == <<"mx1.", "mx2.">>
HostRank(h) == CHOOSE n \in 1..Len(HostOrder) : HostOrder[n] = h

\* faulty variant: sorted(answers, key=lambda r: r.preference)
TupleLEByPreference(a, b) == a.preference <= b.preference

\* (preference, exchange) tuples compare lexicographically
TupleLE(a, b) ==
  \/ a.preference < b.preference
  \/ a.preference = b.preference /\ HostRank(a.exchange) <= HostRank(b.exchange)

\* sorted(list): a stable sort, each element is placed behind those that are
\* not greater
Insert(x, s) ==
  LET k == Cardinality({n \in 1..Len(s) : TupleLE(s[n], x)})
  IN SubSeq(s, 1, k) \o <<x>> \o SubSeq(s, k + 1, Len(s))

RECURSIVE sorted(_)
sorted(s) ==
  IF s = <<>> THEN <<>> ELSE Insert(s[Len(s)], sorted(SubSeq(s, 1, Len(s) - 1)))

\* str(sorted([(r.preference, r.exchange.to_text()) for r in answers])[0][1])
MxRecord(answers) == sorted(answers)[1].exchange

\* the answers of the MX specification: up to MaxRecords records in any
\* order, with equal preferences and repeated records
Preferences == {5, 10}
Records == {MX(p, h) : p \in Preferences, h \in {HostOrder[n] : n \in 1..Len(HostOrder)}}
AnswerLists == UNION {[1..n -> Records] : n \in 0..MaxRecords}

(* -------------------------------- inputs ------------------------------- *)
\* addresses the clients of the batch and sequential specifications submit:
\* one well-formed, one without a dot in the domain
Inputs ==
  { <<"a", "@", "b", ".", "a">>,
    <<"a", "@", "b">> }

RECURSIVE Strings(_)
Strings(n) ==
  IF n = 0 THEN {<<>>}
  ELSE LET S == Strings(n - 1)
       IN S \cup {Append(s, c) : s \in {t \in S : Len(t) = n - 1}, c \in Alphabet}

Batches(U, max) == UNION {[1..n -> U] : n \in 0..max}

\* a list longer than the pool is wide: max_workers + 1 distinct addresses,
\* none of which passes the syntax check
Oversubscribed == [k \in 1..(max_workers + 1) |-> [j \in 1..k |-> "a"]]

(* --------------------------------- state ------------------------------- *)
None == <<>>
Some(x) == <<x>>

\* one call verify_email(arg), queued by ex.map
NewTask(arg) ==
  [arg |-> arg, pc |-> "queued", email |-> <<>>, now |-> -1, cached |-> None,
   hit |-> FALSE, dns |-> "", mx |-> "", code |-> 0, exc |-> "", status |-> "",
   ret |-> None, trace |-> <<>>, wire |-> <<>>, answers |-> <<>>]

Active(t) == t.pc \notin {"queued", "done", "raised"}
Running == Cardinality({i \in 1..Len(tasks) : Active(tasks[i])})

\* faulty variant: cache = {email: (status, now)}, the other entries are lost
StoreAlone(c, email, status, now) ==
  [k \in {email} |-> [status |-> status, ts |-> now]]

\* faulty variant: cache.setdefault(email, (status, now)), the first write stays
StoreIfAbsent(c, email, status, now) ==
  [k \in DOMAIN c \cup {email} |->
     IF k \in DOMAIN c THEN c[k] ELSE [status |-> status, ts |-> now]]

\* cache[email] = (status, now)
Store(c, email, status, now) ==
  [k \in DOMAIN c \cup {email} |->
     IF k = email THEN [status |-> status, ts |-> now] ELSE c[k]]

\* cache.get(email)
Get(c, email) == IF email \in DOMAIN c THEN Some(c[email]) ELSE None

\* faulty variant: cached[1] < CACHE_TTL, the age is not taken from now
FreshAbsolute(cached, now) == cached # None /\ cached[1].ts < CACHE_TTL

\* faulty variant: an entry exactly CACHE_TTL old still counts as fresh
FreshInclusive(cached, now) == cached # None /\ now - cached[1].ts <= CACHE_TTL

\* faulty variant: the cache is never consulted
FreshNever(cached, now) == FALSE

\* cached and now - cached[1] < CACHE_TTL
Fresh(cached, now) == cached # None /\ now - cached[1].ts < CACHE_TTL

Result(email, status) == [email |-> email, status |-> status]

\* the calls that touched the network, by their trace
Queried(trace) == \E n \in 1..Len(trace) : trace[n] = "resolve"
Probed(trace) == \E n \in 1..Len(trace) : trace[n] = "connect"

\* the call returns r: its future is done; history lists the calls in the
\* order they returned
Return(i, t, r) ==
  /\ tasks' = [tasks EXCEPT ![i] = [t EXCEPT !.pc = "done", !.ret = Some(r)]]
  /\ history' =
       IF limits.record
       THEN Append(history,
              [request |-> nreq, index |-> i, arg |-> t.arg, email |-> r.email,
               status |-> r.status,
               now |-> t.now, hit |-> t.hit, queried |-> Queried(t.trace),
               probed |-> Probed(t.trace)])
       ELSE history

Init0 ==
  /\ clock = 0
  /\ cache = <<>>
  /\ phase = "idle"
  /\ emails = <<>>
  /\ tasks = <<>>
  /\ results = <<>>
  /\ history = <<>>
  /\ nreq = 0

\* the batch specification: one request of up to MaxBatch addresses, served
\* from the empty cache by concurrent calls; servers accept or defer the
\* recipient, and a session breaks at connect or at quit
Init ==
  /\ universe = Inputs
  /\ limits = [batch |-> MaxBatch, body |-> None, record |-> TRUE, answers |-> DnsAnswers, requests |-> 1, codes |-> {250, 451},
               faults |-> {"connect", "quit"}]
  /\ Init0

\* the sequential specification: up to MaxRequests requests of one address
InitSeq ==
  /\ universe = Inputs
  /\ limits = [batch |-> 1, body |-> None, record |-> TRUE, answers |-> DnsAnswers, requests |-> MaxRequests, codes |-> RcptCodes,
               faults |-> Commands]
  /\ Init0

\* the two-address specification: one request of up to MaxBatch addresses
\* with two well-formed addresses; servers accept the recipient, and a
\* session breaks at connect
InitTwo ==
  /\ universe = {<<"a", "@", "b", ".", "a">>, <<"b", "@", "a", ".", "b">>}
  /\ limits = [batch |-> MaxBatch, body |-> None, record |-> TRUE, answers |-> DnsAnswers, requests |-> 1, codes |-> {250},
               faults |-> {"connect"}]
  /\ Init0

\* the single-address specification: one request of one address, any string
\* up to MaxLen
InitOne ==
  /\ \E s \in Strings(MaxLen) : universe = {s}
  /\ limits = [batch |-> 1, body |-> None, record |-> TRUE, answers |-> DnsAnswers, requests |-> 1, codes |-> RcptCodes,
               faults |-> Commands]
  /\ Init0

\* the pool specification: one request whose list is Oversubscribed; the
\* order of returns is not recorded
InitPool ==
  /\ universe = {Oversubscribed[k] : k \in DOMAIN Oversubscribed}
  /\ limits = [batch |-> Len(Oversubscribed), body |-> Some(Oversubscribed),
               record |-> FALSE, answers |-> DnsAnswers, requests |-> 1, codes |-> {250}, faults |-> {}]
  /\ Init0

\* the MX specification: one request of one well-formed address, the
\* resolver returns any of AnswerLists, the session runs without failure
InitMx ==
  /\ universe = {<<"a", "@", "b", ".", "a">>}
  /\ limits = [batch |-> 1, body |-> None, record |-> TRUE, answers |-> AnswerLists,
               requests |-> 1, codes |-> {250}, faults |-> {}]
  /\ Init0

\* the progress specification: one request of up to MaxBatch times the same
\* well-formed address; the MX query answers, finds nothing or times out, and
\* a session may time out at connect
InitLive ==
  /\ universe = {<<"a", "@", "b", ".", "a">>}
  /\ limits = [batch |-> MaxBatch, body |-> None, record |-> FALSE, answers |-> DnsAnswers,
               requests |-> 1, codes |-> {250}, faults |-> {"connect"}]
  /\ Init0

\* the spellings specification: up to MaxSpelled requests of one address,
\* spelled in lower case, with capitals and a leading space, or with a capital
\* and a trailing space
Spellings ==
  { <<"a", "@", "b", ".", "a">>,
    <<" ", "A", "@", "b", ".", "A">>,
    <<"A", "@", "b", ".", "a", " ">> }

InitSpell ==
  /\ universe = Spellings
  /\ limits = [batch |-> 1, body |-> None, record |-> TRUE, answers |-> DnsAnswers,
               requests |-> MaxSpelled, codes |-> {250}, faults |-> {}]
  /\ Init0

(* -------------------------------- actions ------------------------------ *)
\* time passes: any amount between two requests (the clock is read relative
\* to the first one), and within a request no more than the timeout of a
\* network call some thread is blocked in
Tick ==
  /\ \E t \in Times :
       /\ t > clock
       /\ \/ phase # "running" /\ nreq > 0
          \/ \E i \in 1..Len(tasks) :
               tasks[i].pc \in Blocking /\ t - clock <= Timeout(tasks[i].pc)
       /\ clock' = t
  /\ UNCHANGED <<client, cache, phase, emails, tasks, results, nreq, history>>

\* the lists a client sends: any list over the universe up to limits.batch,
\* or the one list limits.body names
Bodies ==
  IF limits.body = None THEN Batches(universe, limits.batch) ELSE {limits.body[1]}

\* verify_bulk / verify_csv receive a list and hand it to ex.map, which
\* submits one call per element; verify_csv strips each cell first
Submit ==
  /\ phase # "running"
  /\ nreq < limits.requests
  /\ \E es \in Bodies, endpoint \in {"verify_bulk", "verify_csv"} :
       LET list == IF endpoint = "verify_csv"
                   THEN [i \in 1..Len(es) |-> strip(es[i])] ELSE es
       IN /\ emails' = list
          /\ tasks' = [i \in 1..Len(list) |-> NewTask(list[i])]
          /\ phase' = IF list = <<>> THEN "responded" ELSE "running"
  /\ results' = <<>>
  /\ nreq' = nreq + 1
  /\ UNCHANGED <<client, clock, cache, history>>

\* faulty variant: the pool starts one thread more than max_workers
IdleWorkerExtra == Running <= max_workers

\* ThreadPoolExecutor(max_workers=10): a call starts only on a pool thread that
\* is not running another call
IdleWorker == Running < max_workers

\* a pool thread takes the next queued call: email.strip().lower(), time.time()
Start(i) ==
  /\ tasks[i].pc = "queued"
  /\ \A j \in 1..(i - 1) : tasks[j].pc # "queued"
  /\ IdleWorker
  /\ tasks' = [tasks EXCEPT ![i] =
        [tasks[i] EXCEPT !.pc = "lookup", !.email = Normalize(tasks[i].arg),
                         !.now = clock]]
  /\ UNCHANGED <<client, clock, cache, phase, emails, results, nreq, history>>

\* cache.get, the freshness test, and on a miss the syntax check
Lookup(i) ==
  LET t == tasks[i]
      cached == Get(cache, t.email)
      u == [t EXCEPT !.cached = cached]
  IN /\ t.pc = "lookup"
     /\ IF Fresh(cached, t.now)
        THEN Return(i, [u EXCEPT !.hit = TRUE, !.status = cached[1].status],
                    Result(t.email, cached[1].status))
        ELSE /\ tasks' = [tasks EXCEPT ![i] =
                  IF EMAIL_REGEX(t.email)
                  THEN [u EXCEPT !.pc = "resolve", !.trace = Append(@, "syntax")]
                  ELSE [u EXCEPT !.pc = "store", !.status = InvalidSyntax,
                                 !.trace = Append(@, "syntax")]]
             /\ UNCHANGED history
     /\ UNCHANGED <<client, clock, cache, phase, emails, results, nreq>>

\* faulty variant: an address without MX records is probed at its own domain
OnDnsExceptionFallback(u, e) ==
  [u EXCEPT !.pc = "connect", !.dns = e, !.mx = "mx1."]

\* faulty variant: the except branch lets the resolver's exception escape
OnDnsExceptionEscapes(u, e) ==
  [u EXCEPT !.pc = "raised", !.dns = e]

\* the except branch of the MX lookup
OnDnsException(u, e) ==
  [u EXCEPT !.pc = "store", !.dns = e, !.status = NoMXRecords]

\* dns.resolver.resolve(domain, 'MX') returns records or raises; the empty
\* answer is raised as NoAnswer
Resolve(i) ==
  LET t == tasks[i]
      u == [t EXCEPT !.trace = Append(@, "resolve")]
  IN /\ t.pc = "resolve"
     /\ \/ \E answers \in limits.answers :
             tasks' = [tasks EXCEPT ![i] =
               IF answers = <<>>
               THEN OnDnsException(u, "NoAnswer")
               ELSE [u EXCEPT !.pc = "connect", !.dns = "answer",
                              !.answers = answers, !.mx = MxRecord(answers)]]
        \/ \E e \in DnsExceptions :
             tasks' = [tasks EXCEPT ![i] = OnDnsException(u, e)]
     /\ UNCHANGED <<client, clock, cache, phase, emails, results, nreq, history>>

\* position after each command of the SMTP session
NextCommand(pc) ==
  CASE pc = "connect" -> "helo"
    [] pc = "helo" -> "mail"
    [] pc = "mail" -> "rcpt"
    [] pc = "rcpt" -> "quit"
    [] pc = "quit" -> "store"

\* faulty variant: quit() called after the try block
OnSmtpExceptionQuitOutside(u, e) ==
  IF u.pc # "quit"
  THEN [u EXCEPT !.pc = "store", !.exc = e.text, !.status = SMTPError(e.text)]
  ELSE [u EXCEPT !.pc = "raised", !.exc = e.text]

\* faulty variant: a failed session is tried once more
OnSmtpExceptionRetry(u, e) ==
  IF Len(u.wire) <= 5
  THEN [u EXCEPT !.pc = "connect"]
  ELSE [u EXCEPT !.pc = "store", !.exc = e.text, !.status = SMTPError(e.text)]

\* where an exception raised inside the SMTP try block goes
OnSmtpException(u, e) ==
  IF Catches(e.type)
  THEN [u EXCEPT !.pc = "store", !.exc = e.text, !.status = SMTPError(e.text)]
  ELSE [u EXCEPT !.pc = "raised", !.exc = e.text]

\* what follows a command that returned
OnSmtpReturn(u, code) ==
  CASE u.pc = "rcpt" -> [u EXCEPT !.pc = "quit", !.code = code]
    [] u.pc = "quit" -> [u EXCEPT !.pc = "store", !.status = Classify(u.code)]
    [] OTHER -> [u EXCEPT !.pc = NextCommand(u.pc)]

\* 'verify@example.com', the sender of every MAIL command
Sender ==
  <<"v", "e", "r", "i", "f", "y", "@", "e", "x", "a", "m", "p", "l", "e", ".",
    "c", "o", "m">>

\* socket.gethostname()
Hostname == "localhost"

\* faulty variant: server.mail(email), the sender is the address under test
ArgumentCandidateAsSender(t, cmd) ==
  CASE cmd = "connect" -> t.mx
    [] cmd = "helo" -> Hostname
    [] cmd = "mail" -> t.email
    [] cmd = "rcpt" -> t.email
    [] cmd = "quit" -> ""

\* what each command of the session is called with
Argument(t, cmd) ==
  CASE cmd = "connect" -> t.mx
    [] cmd = "helo" -> Hostname
    [] cmd = "mail" -> Sender
    [] cmd = "rcpt" -> t.email
    [] cmd = "quit" -> ""

\* the reply codes the code looks at: those of RCPT only
Replies(pc) == IF pc = "rcpt" THEN limits.codes ELSE {0}

\* server.connect / helo / mail / rcpt / quit returns or raises
Smtp(i) ==
  LET t == tasks[i]
      u == [t EXCEPT !.trace = Append(@, t.pc),
                     !.wire = Append(@, <<t.pc, Argument(t, t.pc)>>)]
  IN /\ t.pc \in Commands
     /\ \/ \E code \in Replies(t.pc) :
             tasks' = [tasks EXCEPT ![i] = OnSmtpReturn(u, code)]
        \/ \E e \in Raises(t.pc) :
             /\ t.pc \in limits.faults
             /\ tasks' = [tasks EXCEPT ![i] = OnSmtpException(u, e)]
     /\ UNCHANGED <<client, clock, cache, phase, emails, results, nreq, history>>

\* the statuses returned as literals, without reading the cache back
Literal(status) == status \in {InvalidSyntax, NoMXRecords}

\* faulty variant: time.time() read again at the write
StampAtWrite(t) == clock

\* the timestamp written with a status
Stamp(t) == t.now

\* cache[email] = (status, now); the syntax and MX branches return here
Write(i) ==
  LET t == tasks[i]
  IN /\ t.pc = "store"
     /\ cache' = Store(cache, t.email, t.status, Stamp(t))
     /\ IF Literal(t.status)
        THEN Return(i, t, Result(t.email, t.status))
        ELSE /\ tasks' = [tasks EXCEPT ![i] = [t EXCEPT !.pc = "readback"]]
             /\ UNCHANGED history
     /\ UNCHANGED <<client, clock, phase, emails, results, nreq>>

\* return {"email": email, "status": cache[email][0]}
ReadBack(i) ==
  LET t == tasks[i]
  IN /\ t.pc = "readback"
     /\ Return(i, t, Result(t.email, cache[t.email].status))
     /\ UNCHANGED <<client, clock, cache, phase, emails, results, nreq>>

\* the calls of the current request in the order they returned
Completed == SelectSeq(history, LAMBDA h : h.request = nreq)

\* faulty variant: results taken in completion order
CollectAsCompleted ==
  IF Len(results) < Len(Completed) THEN Completed[Len(results) + 1].index ELSE 0

\* the index list(ex.map(...)) takes its next result from
CollectIndex == Len(results) + 1

\* list(ex.map(...)) takes the next result in submission order; the handler
\* responds once it has them all, or fails if the call raised
Collect ==
  /\ phase = "running"
  /\ LET k == CollectIndex
     IN /\ k \in 1..Len(tasks)
        /\ tasks[k].pc \in {"done", "raised"}
        /\ IF tasks[k].pc = "raised"
           THEN /\ \A j \in 1..Len(tasks) : ~Active(tasks[j]) /\ tasks[j].pc # "queued"
                /\ phase' = "failed"
                /\ results' = results
           ELSE /\ results' = Append(results, tasks[k].ret[1])
                /\ phase' = IF Len(results) + 1 = Len(tasks) THEN "responded" ELSE "running"
  /\ UNCHANGED <<client, clock, cache, emails, tasks, nreq, history>>

Next ==
  \/ Tick
  \/ Submit
  \/ \E i \in 1..Len(tasks) : Start(i)
  \/ \E i \in 1..Len(tasks) : Lookup(i)
  \/ \E i \in 1..Len(tasks) : Resolve(i)
  \/ \E i \in 1..Len(tasks) : Smtp(i)
  \/ \E i \in 1..Len(tasks) : Write(i)
  \/ \E i \in 1..Len(tasks) : ReadBack(i)
  \/ Collect

Spec == Init /\ [][Next]_vars

SpecSeq == InitSeq /\ [][Next]_vars

SpecTwo == InitTwo /\ [][Next]_vars

SpecOne == InitOne /\ [][Next]_vars

\* the steps of calls that stop at the syntax check
NextPool ==
  \/ Tick
  \/ Submit
  \/ \E i \in 1..Len(tasks) : Start(i)
  \/ \E i \in 1..Len(tasks) : Lookup(i)
  \/ \E i \in 1..Len(tasks) : Write(i)
  \/ Collect
SpecPool == InitPool /\ [][NextPool]_vars
SpecMx == InitMx /\ [][Next]_vars
SpecSpell == InitSpell /\ [][Next]_vars

\* the steps of call i once a pool thread runs it
Step(i) ==
  /\ i \in 1..Len(tasks)
  /\ Lookup(i) \/ Resolve(i) \/ Smtp(i) \/ Write(i) \/ ReadBack(i)

\* threads are scheduled fairly and every network call returns or times out
\* (lifetime=8.0, timeout=10): a call that can step does; a queued call is
\* started when a pool thread is idle; the handler collects what is done
Fairness ==
  /\ \A i \in 1..(MaxBatch + 1) : WF_vars(Step(i))
  /\ \A i \in 1..(MaxBatch + 1) : WF_vars(i \in 1..Len(tasks) /\ Start(i))
  /\ WF_vars(Collect)

SpecLive == InitLive /\ [][Next]_vars /\ Fairness

(* ------------------------------ properties ----------------------------- *)
\* the statuses the calls of the current request classified for an address,
\* or found in its cache entry
Classified(email) ==
  LET own == {n \in 1..Len(tasks) : tasks[n].email = email}
  IN {tasks[n].status : n \in {j \in own : ~tasks[j].hit /\ tasks[j].status # ""}}
       \cup {tasks[n].cached[1].status : n \in {j \in own : tasks[j].hit}}

\* C1: the list a request returns has the length of the submitted list, and
\* its i-th element carries the normalized i-th address and the status the
\* i-th call returned, a status classified for that address or cached under
\* it, whatever the order in which the concurrent calls finish; while the request runs, the
\* results taken so far are such a prefix.
C1_OrderPreserved ==
  /\ phase = "responded" => Len(results) = Len(emails)
  /\ Len(results) <= Len(emails)
  /\ \A i \in 1..Len(results) :
       /\ results[i].email = Normalize(emails[i])
       /\ tasks[i].pc = "done"
       /\ results[i] = tasks[i].ret[1]
       /\ \E n \in 1..Len(Completed) :
            Completed[n].index = i /\ Completed[n].status = results[i].status
       /\ results[i].status \in Classified(Normalize(emails[i]))

\* a request of two different addresses answered in order although the
\* second call returned first
C1_Witness ==
  /\ phase = "responded"
  /\ Len(emails) >= 2
  /\ Normalize(emails[1]) # Normalize(emails[2])
  /\ Completed[1].index = 2
  /\ results[1].email = Normalize(emails[1])

\* the latest call before the n-th of the history that verified the same
\* address, any call (Previous) or one that was not a cache hit (Stored)
Previous(n) ==
  LET E == {m \in 1..(n - 1) : history[m].email = history[n].email}
  IN IF E = {} THEN 0 ELSE CHOOSE m \in E : \A k \in E : k <= m

Stored(n) ==
  LET E == {m \in 1..(n - 1) : history[m].email = history[n].email /\ ~history[m].hit}
  IN IF E = {} THEN 0 ELSE CHOOSE m \in E : \A k \in E : k <= m

Repeats(n, m) ==
  /\ history[n].status = history[m].status
  /\ ~history[n].queried
  /\ ~history[n].probed

\* C2 as stated: of two successive calls for the same address, the second
\* starting less than CACHE_TTL after the first, the second returns the status
\* of the first without a DNS query or an SMTP session.
C2_Original ==
  \A n \in 1..Len(history) :
    LET m == Previous(n)
    IN m # 0 /\ history[n].now - history[m].now < CACHE_TTL => Repeats(n, m)

\* C2 amended: a call that starts less than CACHE_TTL after the start of the
\* latest call for the same address that was not served from the cache returns
\* the status of that call, and of every call since, without a DNS query or an
\* SMTP session.
C2_Idempotent ==
  \A n \in 1..Len(history) :
    LET m == Stored(n)
    IN m # 0 /\ history[n].now - history[m].now < CACHE_TTL =>
         /\ history[n].hit
         /\ Repeats(n, m)
         /\ Previous(n) # 0 /\ Repeats(n, Previous(n))

\* a second call served from the cache with the status the first one probed
C2_Witness ==
  /\ Len(history) >= 2
  /\ history[1].probed /\ ~history[1].hit
  /\ history[2].email = history[1].email
  /\ history[2].now > history[1].now
  /\ history[2].hit /\ ~history[2].probed
  /\ history[2].status = history[1].status

\* C3: a call whose cache entry is CACHE_TTL old or older (boundary included)
\* is not served from the cache and runs the syntax check, then the MX lookup
\* of a well-formed address and the SMTP session of a resolved one; a call
\* whose entry is younger returns the stored status and does nothing else.
C3_Expiry ==
  \A i \in 1..Len(tasks) :
    LET t == tasks[i]
    IN t.pc \notin {"queued", "lookup"} /\ t.cached # None =>
         IF t.now - t.cached[1].ts >= CACHE_TTL
         THEN /\ ~t.hit
              /\ t.trace # <<>> /\ t.trace[1] = "syntax"
              /\ t.pc = "done" /\ EMAIL_REGEX(t.email) => Queried(t.trace)
              /\ t.pc = "done" /\ t.dns = "answer" => Probed(t.trace)
         ELSE /\ t.hit
              /\ t.pc = "done"
              /\ t.trace = <<>>
              /\ t.ret[1].status = t.cached[1].status

\* a call made exactly CACHE_TTL after the entry was stamped probes again
C3_Witness ==
  \E i \in 1..Len(tasks) :
    LET t == tasks[i]
    IN /\ t.pc = "done"
       /\ t.cached # None
       /\ t.now - t.cached[1].ts = CACHE_TTL
       /\ ~t.hit
       /\ Probed(t.trace)

\* the shapes of a malformed address
CountAt(s) == Cardinality({k \in 1..Len(s) : s[k] = "@"})
DomainPart(s) ==
  LET at == CHOOSE k \in 1..Len(s) : s[k] = "@" IN SubSeq(s, at + 1, Len(s))
MissingAt(s) == CountAt(s) = 0
SeveralAt(s) == CountAt(s) > 1
NoDomainDot(s) ==
  CountAt(s) = 1 /\ \A k \in 1..Len(DomainPart(s)) : DomainPart(s)[k] # "."
EmbeddedSpace(s) == \E k \in 1..Len(s) : s[k] \in Whitespace
Malformed(s) == MissingAt(s) \/ SeveralAt(s) \/ NoDomainDot(s) \/ EmbeddedSpace(s)

\* C4: a call for an address that, once normalized, has no '@', several '@',
\* no '.' after the '@' or a space inside, and that is not served from the
\* cache, returns "Invalid Syntax" and makes no DNS query and no SMTP
\* connection: it goes from the lookup to the cache write and returns.
C4_MalformedRejected ==
  \A i \in 1..Len(tasks) :
    LET t == tasks[i]
    IN t.pc # "queued" /\ Malformed(t.email) /\ ~t.hit =>
         /\ t.pc \in {"lookup", "store", "done"}
         /\ ~Queried(t.trace) /\ ~Probed(t.trace)
         /\ t.dns = "" /\ t.mx = ""
         /\ t.pc = "store" => t.status = InvalidSyntax
         /\ t.pc = "done" => t.ret[1] = Result(Normalize(t.arg), InvalidSyntax)

\* an address with a space inside and no dot after the '@' was rejected
C4_Witness ==
  \E i \in 1..Len(tasks) :
    LET t == tasks[i]
    IN /\ t.pc = "done"
       /\ EmbeddedSpace(t.email) /\ NoDomainDot(t.email)
       /\ t.ret[1].status = InvalidSyntax
       /\ t.trace = <<"syntax">>

\* C5: when the MX lookup of a well-formed, uncached address fails (NXDOMAIN,
\* timeout, empty answer), the call returns "No MX Records" and opens no SMTP
\* session.
C5_NoMailExchange ==
  \A i \in 1..Len(tasks) :
    LET t == tasks[i]
    IN t.dns \in DnsExceptions \cup {"NoAnswer"} =>
         /\ EMAIL_REGEX(t.email) /\ ~t.hit
         /\ t.pc \in {"store", "done"}
         /\ ~Probed(t.trace)
         /\ t.trace = <<"syntax", "resolve">>
         /\ t.status = NoMXRecords
         /\ t.pc = "done" => t.ret[1] = Result(Normalize(t.arg), NoMXRecords)

\* a call returned "No MX Records" after the resolver timed out
C5_Witness ==
  \E i \in 1..Len(tasks) :
    /\ tasks[i].pc = "done"
    /\ tasks[i].dns = "LifetimeTimeout"
    /\ tasks[i].ret[1].status = NoMXRecords

\* the statuses of the specification for a reply code of RCPT
StatusOfCode(c) ==
  IF c \in {250, 251} THEN "Valid"
  ELSE IF c = 550 THEN "Mailbox Not Found"
  ELSE "Unknown (" \o ToString(c) \o ")"

\* the session of the call ran from connect to quit without an exception
CleanSession(t) ==
  /\ t.trace = <<"syntax", "resolve", "connect", "helo", "mail", "rcpt", "quit">>
  /\ t.pc \in {"store", "readback", "done"}
  /\ t.exc = ""

\* C6: a call whose MX lookup succeeded and whose SMTP session gave the RCPT
\* reply code c without error returns "Valid" for 250 and 251, "Mailbox Not
\* Found" for 550 and "Unknown (c)" for any other code.
C6_ReturnsCodeStatus ==
  \A i \in 1..Len(tasks) :
    LET t == tasks[i]
    IN CleanSession(t) /\ t.pc = "done" => t.ret[1].status = StatusOfCode(t.code)

\* the status a call would return from what it alone observed
Alone(t) ==
  IF ~EMAIL_REGEX(t.email) THEN "Invalid Syntax"
  ELSE IF t.dns # "answer" THEN "No MX Records"
  ELSE IF t.exc # "" THEN "SMTP Error: " \o t.exc
  ELSE StatusOfCode(t.code)

OnlyCall(i) == \A j \in 1..Len(tasks) : j # i => tasks[j].email # tasks[i].email

Failing(t) == t.exc # "" /\ Probed(t.trace)

\* C7: a request never fails and no call raises; once a request in which the
\* SMTP session of some call raised a connection error is answered, every
\* call that is the only one for its address has the result it has when
\* verified alone, an "SMTP Error: ..." result for a call whose session raised.
C7_FailureIsolated ==
  /\ phase # "failed"
  /\ \A i \in 1..Len(tasks) : tasks[i].pc # "raised"
  /\ phase = "responded" /\ (\E f \in 1..Len(tasks) : Failing(tasks[f])) =>
       /\ Len(results) = Len(tasks)
       /\ \A i \in 1..Len(tasks) :
            OnlyCall(i) =>
              /\ results[i] = Result(Normalize(emails[i]), Alone(tasks[i]))
              /\ Failing(tasks[i]) => results[i].status = SMTPError(tasks[i].exc)

\* a request answered with an SMTP error for its first address and "Valid"
\* for its second
C7_Witness ==
  /\ phase = "responded"
  /\ Len(tasks) >= 2
  /\ tasks[1].email # tasks[2].email
  /\ Failing(tasks[1])
  /\ results[1].status = "SMTP Error: timed out"
  /\ results[2].status = "Valid"

\* the statuses a call can return
Statuses ==
  {"Invalid Syntax", "No MX Records", "Valid", "Mailbox Not Found"}
    \cup {"Unknown (" \o ToString(c) \o ")" : c \in RcptCodes \ {250, 251, 550}}
    \cup {"SMTP Error: " \o e.text : e \in UNION {Raises(cmd) : cmd \in Commands}}

\* C8: whatever DNS and SMTP do, no call raises and no request fails; a call
\* that has returned has returned once, a result with the normalized address
\* and one of the statuses; a call whose SMTP session raised, at connect,
\* HELO, MAIL, RCPT or QUIT, classified "SMTP Error: <text>".
C8_AlwaysClassified ==
  /\ phase # "failed"
  /\ \A i \in 1..Len(tasks) :
       LET t == tasks[i]
       IN /\ t.pc # "raised"
          /\ t.pc = "done" =>
               /\ Len(t.ret) = 1
               /\ t.ret[1].email = Normalize(t.arg)
               /\ t.ret[1].status \in Statuses
               /\ Cardinality({n \in 1..Len(Completed) : Completed[n].index = i}) = 1
          /\ t.pc # "done" => t.ret = None
          /\ t.exc # "" =>
               /\ t.status = "SMTP Error: " \o t.exc
               /\ t.pc \in {"store", "readback", "done"}
               /\ t.trace[Len(t.trace)] \in Commands

\* a call returned an SMTP error after the server dropped the connection at
\* MAIL
C8_Witness ==
  \E i \in 1..Len(tasks) :
    /\ tasks[i].pc = "done"
    /\ tasks[i].trace = <<"syntax", "resolve", "connect", "helo", "mail">>
    /\ tasks[i].ret[1].status = "SMTP Error: Connection unexpectedly closed"

\* the step in which call i writes the cache
Writes(i) == tasks[i].pc = "store" /\ tasks'[i].pc # "store"

\* the step in which call i returns without having been served from the cache
ReturnsFresh(i) == tasks[i].pc # "done" /\ tasks'[i].pc = "done" /\ ~tasks'[i].hit

\* C9 as stated: the entry a call writes holds the classified status and the
\* clock value at the moment of the write.
C9_Original ==
  [][\A i \in 1..Len(tasks) :
       Writes(i) => cache'[tasks[i].email] = [status |-> tasks[i].status, ts |-> clock]]_vars

\* C9 amended: a call that is not served from the cache writes, before it
\* returns, an entry under the normalized address that holds the status it
\* classified and the clock value it read when it started, which is at most
\* the clock value at the write.
C9_StampedAtStart ==
  [][\A i \in 1..Len(tasks) :
       /\ Writes(i) =>
            /\ tasks[i].email = Normalize(tasks[i].arg)
            /\ cache'[tasks[i].email] =
                  [status |-> tasks[i].status, ts |-> tasks[i].now]
            /\ tasks[i].now <= clock
            /\ tasks[i].status \in Statuses
       /\ ReturnsFresh(i) =>
            /\ tasks[i].pc \in {"store", "readback"}
            /\ tasks[i].email \in DOMAIN cache'
            /\ tasks[i].pc = "readback" => tasks[i].email \in DOMAIN cache]_vars

\* a call has written its status with the time it started at, after the clock
\* had moved on
C9_Witness ==
  \E i \in 1..Len(tasks) :
    LET t == tasks[i]
    IN /\ t.pc = "readback"
       /\ cache[t.email] = [status |-> t.status, ts |-> t.now]
       /\ t.now < clock

\* the RCPT command of the call returned a code and QUIT raised
QuitFailed(t) ==
  /\ t.trace = <<"syntax", "resolve", "connect", "helo", "mail", "rcpt", "quit">>
  /\ t.exc # ""

\* C10: a call whose RCPT command returned a code and whose QUIT failed
\* classifies, caches and returns the status of that code, not an SMTP error.
C10_QuitFailureKeepsResult ==
  \A i \in 1..Len(tasks) :
    LET t == tasks[i]
    IN QuitFailed(t) =>
         /\ t.status = StatusOfCode(t.code)
         /\ t.pc = "done" => t.ret[1].status = StatusOfCode(t.code)

\* C11: within one batch at most max_workers (10) calls of verify_email are in
\* progress at any moment, however long the list
C11_PoolBounded == Running <= 10

\* ten calls in progress while the eleventh waits in the queue
C11_Witness ==
  /\ Running = 10
  /\ Len(tasks) > 10
  /\ \E i \in 1..Len(tasks) : tasks[i].pc = "queued"

\* C12: in every interleaving, the status a call that was not a cache hit
\* returns is the status this same call classified and wrote to the cache,
\* also when other calls verify the same address at the same time
C12_ReturnsOwnStatus ==
  \A i \in 1..Len(tasks) :
    LET t == tasks[i]
    IN t.pc = "done" /\ ~t.hit => t.ret[1].status = t.status

\* C13: two calls for the same uncached address can both miss the cache and
\* each run its own MX lookup and SMTP session; every write replaces the entry
\* by the writer's status and timestamp and nothing else changes the cache, so
\* after both finish the entry is that of the later write
C13_LaterWriteWins ==
  [][/\ \A i \in 1..Len(tasks) :
          Writes(i) =>
            cache'[tasks[i].email] = [status |-> tasks[i].status, ts |-> tasks[i].now]
     /\ (cache' # cache => \E i \in 1..Len(tasks) : Writes(i))]_vars

\* both calls missed, both queried and probed, the call that started later
\* wrote first: the entry is that of the call that started earlier
C13_Witness ==
  /\ Len(tasks) = 2
  /\ \A i \in 1..2 :
       /\ tasks[i].pc = "done"
       /\ ~tasks[i].hit
       /\ Queried(tasks[i].trace)
       /\ Probed(tasks[i].trace)
  /\ tasks[1].email = tasks[2].email
  /\ tasks[1].now < tasks[2].now
  /\ tasks[1].status # tasks[2].status
  /\ cache[tasks[1].email] = [status |-> tasks[1].status, ts |-> tasks[1].now]

\* the commands of one SMTP session, in the order the code issues them
SessionOrder == <<"connect", "helo", "mail", "rcpt", "quit">>

Count(trace, step) == Cardinality({n \in 1..Len(trace) : trace[n] = step})

\* the returns of call i of the current request
Returns(i) == SelectSeq(history, LAMBDA h : h.request = nreq /\ h.index = i)

\* C15: no retries: a call makes at most one MX query and opens at most one
\* SMTP session, and a request runs exactly one call per list element,
\* duplicates included, whatever the outcomes
C15_NoRetries ==
  /\ Len(tasks) = Len(emails)
  /\ \A i \in 1..Len(tasks) :
       LET t == tasks[i]
       IN /\ t.arg = emails[i]
          /\ Count(t.trace, "resolve") <= 1
          /\ Count(t.trace, "connect") <= 1
          /\ Len(t.wire) = Len(SelectSeq(t.trace, LAMBDA x : x \in Commands))
          /\ Len(Returns(i)) = IF t.pc = "done" THEN 1 ELSE 0
  /\ \A n \in 1..Len(history) : history[n].request = nreq => history[n].index \in 1..Len(emails)
  /\ phase = "responded" => Len(results) = Len(emails)

\* a list of twice the same address: both calls ran the MX query and the SMTP
\* session themselves, one session failed and was not tried again
C15_Witness ==
  /\ phase = "responded"
  /\ Len(emails) = 2
  /\ emails[1] = emails[2]
  /\ \A i \in 1..2 : Count(tasks[i].trace, "resolve") = 1 /\ Count(tasks[i].trace, "connect") = 1
  /\ tasks[1].exc # ""
  /\ tasks[2].exc = ""

\* the records of an answer, whatever their order
RecordSet(answers) == {answers[n] : n \in 1..Len(answers)}

\* C16: the host probed has the numerically smallest preference of the
\* answer; every answer with the same records, in any order and with ties,
\* gives the same host; the empty answer gives "No MX Records" and no probe
C16_LowestPreference ==
  \A i \in 1..Len(tasks) :
    LET t == tasks[i]
    IN /\ t.dns = "answer" =>
            /\ t.answers # <<>>
            /\ \E n \in 1..Len(t.answers) :
                 /\ t.answers[n].exchange = t.mx
                 /\ \A m \in 1..Len(t.answers) :
                      t.answers[n].preference <= t.answers[m].preference
            /\ \A other \in limits.answers :
                 RecordSet(other) = RecordSet(t.answers) => MxRecord(other) = t.mx
            /\ t.wire # <<>> => t.wire[1] = <<"connect", t.mx>>
       /\ t.dns = "NoAnswer" =>
            /\ t.answers = <<>>
            /\ t.wire = <<>>
            /\ t.status = "No MX Records"

\* the resolver returned two records of the lowest preference behind one of
\* a higher preference, and the call probed the first of them by name
C16_Witness ==
  \E i \in 1..Len(tasks) :
    /\ tasks[i].pc = "done"
    /\ tasks[i].answers = <<MX(10, "mx1."), MX(5, "mx2."), MX(5, "mx1.")>>
    /\ tasks[i].wire[1] = <<"connect", "mx1.">>

\* C17: once a request runs and every MX query and SMTP command returns or
\* times out, every call reaches a status and returns, and the request is
\* answered; a call that runs can always step, whatever the other calls do
C17_Terminates ==
  /\ [](\A i \in 1..Len(tasks) : Active(tasks[i]) => ENABLED Step(i))
  /\ (phase = "running") ~>
       (/\ phase = "responded"
        /\ Len(results) = Len(emails)
        /\ \A i \in 1..Len(tasks) :
             tasks[i].pc = "done" /\ tasks[i].ret[1].status \in Statuses)

\* the request was answered after one call's connect timed out and the other
\* call's MX query found nothing
C17_Witness ==
  /\ phase = "responded"
  /\ Len(tasks) = 2
  /\ tasks[1].exc = "timed out"
  /\ tasks[2].dns # "answer"
  /\ \A i \in 1..2 : tasks[i].pc = "done"

\* call i returns from the cache in this step
Hits(i) == tasks[i].pc = "lookup" /\ tasks'[i].pc = "done"

\* C18: a call that returns from the cache leaves every entry as it was,
\* status and timestamp; a call that writes changes the entry of its own
\* normalized address only; no step removes a key
C18_Frame ==
  [][/\ DOMAIN cache \subseteq DOMAIN cache'
     /\ \A i \in 1..Len(tasks) :
          /\ Hits(i) => tasks'[i].hit /\ cache' = cache
          /\ Writes(i) =>
               /\ ~tasks[i].hit
               /\ DOMAIN cache' = DOMAIN cache \cup {Normalize(tasks[i].arg)}
               /\ \A k \in DOMAIN cache \ {Normalize(tasks[i].arg)} : cache'[k] = cache[k]
     /\ (cache' # cache => \E i \in 1..Len(tasks) : Writes(i))]_vars

\* with two addresses cached, a call returned from the cache well after its
\* entry was written, and the entry still has its old timestamp
C18_Witness ==
  /\ Cardinality(DOMAIN cache) = 2
  /\ \E i \in 1..Len(tasks) :
       /\ tasks[i].pc = "done"
       /\ tasks[i].hit
       /\ cache[tasks[i].email].ts < tasks[i].now

\* two inputs that differ in letter case and outer whitespace only
SameAddress(x, y) == lower(strip(x)) = lower(strip(y))

\* the latest call before the n-th of the history that was not a cache hit
\* and whose input is the n-th input up to case and outer whitespace
StoredAs(n) ==
  LET E == {m \in 1..(n - 1) : SameAddress(history[m].arg, history[n].arg) /\ ~history[m].hit}
  IN IF E = {} THEN 0 ELSE CHOOSE m \in E : \A k \in E : k <= m

\* C19: the cache is keyed on the normalized address: inputs that differ only
\* in case or outer whitespace share one entry, a call starting less than
\* CACHE_TTL after the start of the call that stored the entry under another
\* spelling returns from the cache with the same status, and every result
\* carries the lower-case, stripped address
C19_KeyedOnNormalized ==
  /\ \A k \in DOMAIN cache : k = lower(strip(k)) /\ \E x \in universe : SameAddress(k, x)
  /\ \A x \in universe, y \in universe :
       SameAddress(x, y) /\ Normalize(x) \in DOMAIN cache => Normalize(y) \in DOMAIN cache
  /\ \A n \in 1..Len(history) :
       /\ history[n].email = lower(strip(history[n].arg))
       /\ LET m == StoredAs(n)
          IN m # 0 /\ history[n].now - history[m].now < CACHE_TTL =>
               /\ history[n].hit
               /\ history[n].status = history[m].status
  /\ \A k \in 1..Len(results) : results[k].email = lower(strip(emails[k]))

\* the address was verified with capitals and a leading space, and the call
\* for its lower-case spelling returned the same status from the one entry
C19_Witness ==
  /\ Len(history) >= 2
  /\ history[1].arg = <<" ", "A", "@", "b", ".", "A">>
  /\ ~history[1].hit
  /\ history[2].arg = <<"a", "@", "b", ".", "a">>
  /\ history[2].now > history[1].now
  /\ history[2].hit
  /\ history[2].status = history[1].status
  /\ DOMAIN cache = {<<"a", "@", "b", ".", "a">>}

\* the calls that classified and wrote a status: those that returned without
\* a cache hit, with the status they classified, and those of the current
\* request that have written and not yet returned
Origins ==
  {[email |-> history[m].email, now |-> history[m].now,
    status |-> IF history[m].request = nreq
               THEN tasks[history[m].index].status ELSE history[m].status] :
     m \in {k \in 1..Len(history) : ~history[k].hit}}
  \cup {[email |-> tasks[j].email, now |-> tasks[j].now, status |-> tasks[j].status] :
          j \in {k \in 1..Len(tasks) : tasks[k].pc = "readback"}}

====
